---- MODULE Spec2Model ----
(***************************************************************************)
(* Model of the relx review workflow (src/relx/reviews.py), of the        *)
(* top-level command dispatch (src/relx/cli.py) and of the two review     *)
(* providers (src/relx/providers/obs_review.py, gitea_review.py).         *)
(* Spec is a review run against a provider seen as a collaborator;        *)
(* ProviderSpec is one direct call of a provider method.                  *)
(*                                                                         *)
(* Python values are represented as follows:                               *)
(*   Optional[x]   the empty tuple << >> for None, << x >> otherwise       *)
(*   str           a TLA+ string where only equality and truthiness are   *)
(*                 used; a tuple of one-character strings where the code  *)
(*                 splits, strips or parses it (--prs, Request.id)         *)
(*   f-strings     the tuple of their literal and interpolated parts       *)
(* Calls on collaborators (Prompt.ask, the review provider, the pager,     *)
(* print_panel, Console.print) are appended to the history variable        *)
(* trace, in call order, as the mocks of tests/test_reviews.py record them.*)
(***************************************************************************)
EXTENDS Integers, Sequences, FiniteSets, TLC

\* Largest number of requests one list_requests call returns.
MaxRequests == 2

VARIABLES
    args,           \* the argparse Namespace handed to reviews.main
    pc,             \* control point of the run
    provider,       \* provider_name of the constructed review provider, or << >>
    requests,       \* the fetched-and-filtered list of Request
    index,          \* 1-based loop index of _process_review_loop (0 outside it)
    diff_content,   \* value returned by the last get_request_diff
    exc,            \* exception propagating out of args.func, or << >>
    exit_status,    \* process exit status, or << >> while running
    trace,          \* calls made on the collaborators so far
    call,           \* the review provider method invoked directly, or << >>
    cmds,           \* command lines handed to the provider's command_runner
    result          \* what the provider method returned or raised, or << >>

vars == <<args, pc, provider, requests, index, diff_content, exc, exit_status, trace,
          call, cmds, result>>

\* state of a review run
vars_of_run == <<args, provider, requests, index, diff_content, exc, exit_status, trace>>

\* state of a direct call of a review provider method
provider_vars == <<call, cmds, result>>

----------------------------------------------------------------------------
\* Python values

None == << >>
Some(v) == << v >>
IsNone(o) == o = None
Value(o) == o[1]

\* bool(x) of an Optional[str]: None and "" are falsy.
Truthy(o) == o # None /\ Value(o) # ""

\* bool(x) of an Optional[str] held as a tuple of characters.
TruthyChars(o) == o # None /\ Value(o) # << >>

DigitChars == <<"0", "1", "2", "3", "4", "5", "6", "7", "8", "9">>

IsDigit(c) == \E d \in 1..10 : DigitChars[d] = c

DigitVal(c) == (CHOOSE d \in 1..10 : DigitChars[d] = c) - 1

IsSpace(c) == c = " "

\* str.split(sep): the tokens between separators, "" included.
RECURSIVE SplitAcc(_, _, _)
SplitAcc(s, sep, cur) ==
    IF s = << >> THEN << cur >>
    ELSE IF Head(s) = sep THEN << cur >> \o SplitAcc(Tail(s), sep, << >>)
    ELSE SplitAcc(Tail(s), sep, Append(cur, Head(s)))

Split(s, sep) == SplitAcc(s, sep, << >>)

RECURSIVE LStrip(_)
LStrip(s) == IF s # << >> /\ IsSpace(Head(s)) THEN LStrip(Tail(s)) ELSE s

RECURSIVE RStrip(_)
RStrip(s) ==
    IF s # << >> /\ IsSpace(s[Len(s)]) THEN RStrip(SubSeq(s, 1, Len(s) - 1)) ELSE s

\* str.strip()
Strip(s) == RStrip(LStrip(s))

\* int(s) raises ValueError unless s is a non-empty run of digits (signs and
\* underscores do not occur in the inputs drawn here).
IntRaises(s) == s = << >> \/ \E i \in 1..Len(s) : ~IsDigit(s[i])

RECURSIVE IntOf(_)
IntOf(s) == IF s = << >> THEN 0 ELSE 10 * IntOf(SubSeq(s, 1, Len(s) - 1)) + DigitVal(s[Len(s)])

\* str(n) of a natural number
RECURSIVE StrOf(_)
StrOf(n) == IF n < 10 THEN << DigitChars[n + 1] >> ELSE Append(StrOf(n \div 10), DigitChars[(n % 10) + 1])

Range(s) == { s[i] : i \in 1..Len(s) }

\* Event recorded for one call on a collaborator: idx is the 1-based position
\* of the request the call is made for (0 outside the per-item loop), arg the
\* arguments, ret the value returned (None for a call that returns nothing
\* or raises).
Call(op, idx, arg, ret) == [op |-> op, idx |-> idx, arg |-> arg, ret |-> ret]

----------------------------------------------------------------------------
\* Command-line arguments of the reviews subcommand (build_parser)

Projects == {None, Some("SUSE:SLFO")}
Stagings == {None, Some("A")}
Repositories == {None, Some("my-repo")}
Branches == {None, Some("main")}
Reviewers == {None, Some("me")}

\* --prs values: absent, empty, and comma-separated lists, well formed or not.
PrsValues ==
    { None,
      Some(<< >>),
      Some(<<"2">>),
      Some(<<"1", ",", "3", ",", "5">>),
      Some(<<" ", "3", " ", ",", "1">>),
      Some(<<"1", ",", "f", "o", "o">>),
      Some(<<"3", ",">>) }

\* --staging and --bugowner are in one mutually exclusive argparse group.
Namespaces ==
    { a \in [ project : Projects, staging : Stagings, bugowner : BOOLEAN,
              repository : Repositories, branch : Branches, reviewer : Reviewers,
              prs : PrsValues ] :
        ~(a.staging # None /\ a.bugowner) }

----------------------------------------------------------------------------
\* reviews.py

MsgBoth == "Please provide arguments for either OBS (--project) or Gitea, not both."
MsgNeedsProject == "--project is required when using --staging or --bugowner."
MsgPrsNeedsGitea == "--prs can only be used with Gitea arguments (--repository, --branch, --reviewer)."
MsgPrsNumbers == "--prs must be a comma-separated list of numbers."
MsgNoProvider == "Please provide arguments for a provider. For OBS: --project. For Gitea: --repository, --branch, AND --reviewer."

is_obs(a) == a.project # None

is_gitea(a) == Truthy(a.repository) /\ Truthy(a.branch) /\ Truthy(a.reviewer)

\* {int(pr_id.strip()) for pr_id in prs.split(",")} raises ValueError
PrsRaises(prs) == \E t \in Range(Split(prs, ",")) : IntRaises(Strip(t))

PrsIds(prs) == { IntOf(Strip(t)) : t \in Range(Split(prs, ",")) }

\* _validate_args without the int() check of the --prs entries
_validate_args_without_prs_numbers(a) ==
    IF is_obs(a) /\ is_gitea(a) THEN Some(MsgBoth)
    ELSE IF (a.staging # None \/ a.bugowner) /\ ~is_obs(a) THEN Some(MsgNeedsProject)
    ELSE IF TruthyChars(a.prs) /\ ~is_gitea(a) THEN Some(MsgPrsNeedsGitea)
    ELSE IF ~is_gitea(a) /\ ~is_obs(a) THEN Some(MsgNoProvider)
    ELSE None

\* _validate_args without the "not both" check
_validate_args_without_both(a) ==
    IF (a.staging # None \/ a.bugowner) /\ ~is_obs(a) THEN Some(MsgNeedsProject)
    ELSE IF TruthyChars(a.prs) /\ ~is_gitea(a) THEN Some(MsgPrsNeedsGitea)
    ELSE IF is_gitea(a) /\ TruthyChars(a.prs) /\ PrsRaises(Value(a.prs)) THEN Some(MsgPrsNumbers)
    ELSE IF ~is_gitea(a) /\ ~is_obs(a) THEN Some(MsgNoProvider)
    ELSE None

\* _validate_args: the message of the RelxInvalidParamsError raised, or None.
_validate_args(a) ==
    IF is_obs(a) /\ is_gitea(a) THEN Some(MsgBoth)
    ELSE IF (a.staging # None \/ a.bugowner) /\ ~is_obs(a) THEN Some(MsgNeedsProject)
    ELSE IF TruthyChars(a.prs) /\ ~is_gitea(a) THEN Some(MsgPrsNeedsGitea)
    ELSE IF is_gitea(a) /\ TruthyChars(a.prs) /\ PrsRaises(Value(a.prs)) THEN Some(MsgPrsNumbers)
    ELSE IF ~is_gitea(a) /\ ~is_obs(a) THEN Some(MsgNoProvider)
    ELSE None

\* provider_name choosing the forge as soon as one forge argument is given
provider_name_any_forge_arg(a) ==
    IF Truthy(a.repository) \/ Truthy(a.branch) \/ Truthy(a.reviewer) THEN "gitea" ELSE "obs"

provider_name(a) == IF is_gitea(a) THEN "gitea" ELSE "obs"

\* Request(id, name, provider_type); the package name or title is the same
\* for every request.
Request(n, kind) == [id |-> StrOf(n), name |-> "pkg", provider_type |-> kind]

\* print_panel's default title "", as the (empty) tuple of its parts
NoTitle == << >>

\* show_request_list
RequestLine(request) ==
    << "- ", IF request.provider_type = "gitea" THEN "PR#" ELSE "SR#",
       request.id, ": ", request.name >>

show_request_list(reqs) ==
    IF Len(reqs) = 0 THEN << "No pending reviews." >>
    ELSE [ i \in 1..Len(reqs) |-> RequestLine(reqs[i]) ]

\* The parameter objects the provider classes build from the arguments.
build_list_params(kind, a) ==
    IF kind = "gitea"
    THEN [variant |-> "gitea", repository |-> a.repository, branch |-> a.branch,
          reviewer |-> a.reviewer]
    ELSE [variant |-> "obs", project |-> a.project, staging |-> a.staging,
          is_bugowner_request |-> a.bugowner]

build_get_request_diff_params(kind, request_id, a) ==
    IF kind = "gitea"
    THEN [variant |-> "gitea", request_id |-> request_id, repository |-> a.repository]
    ELSE [variant |-> "obs", request_id |-> request_id]

build_approve_request_params(kind, request_id, a) ==
    IF kind = "gitea"
    THEN [variant |-> "gitea", request_id |-> request_id, repository |-> a.repository,
          reviewer |-> a.reviewer]
    ELSE [variant |-> "obs", request_id |-> request_id, is_bugowner |-> a.bugowner]

\* _fetch_and_filter_requests after list_requests returned all_requests:
\* the requests kept, the ids not found, and whether the defensive
\* ValueError branch raised.
requested_pr_ids(a) == PrsIds(Value(a.prs))

\* filtered_requests comparing req.id, a str, with the requested ints
filtered_requests_without_int(all_requests, a) ==
    IF TruthyChars(a.prs) THEN << >> ELSE all_requests

filtered_requests(all_requests, a) ==
    IF TruthyChars(a.prs)
    THEN SelectSeq(all_requests, LAMBDA req : IntOf(req.id) \in requested_pr_ids(a))
    ELSE all_requests

not_found_ids(all_requests, a) ==
    IF TruthyChars(a.prs)
    THEN requested_pr_ids(a) \ { IntOf(req.id) : req \in Range(filtered_requests(all_requests, a)) }
    ELSE {}

FilterRaises(all_requests, a) ==
    /\ TruthyChars(a.prs)
    /\ \/ PrsRaises(Value(a.prs))
       \/ \E req \in Range(all_requests) : IntRaises(req.id)

----------------------------------------------------------------------------
\* The review provider as reviews.py sees it: a collaborator whose calls
\* return a value or raise RuntimeError.

\* Ids the backend may list.
Ids == 1..MaxRequests

\* list_requests results: up to MaxRequests requests with distinct ids, in
\* any order, all of the provider's own kind.
DistinctIds(n) == { g \in [1..n -> Ids] : \A i, j \in 1..n : g[i] = g[j] => i = j }

BackendLists(kind) ==
    UNION { { [ i \in 1..n |-> Request(f[i], kind) ] : f \in DistinctIds(n) } :
            n \in 0..MaxRequests }

\* get_request_diff results
DiffTexts == {"", "This is a diff"}

\* approve_request results
ApprovalLines == { << "Approved." >> }

----------------------------------------------------------------------------
\* Control points of a run:
\*   main            reviews.main entered by cli.main (args.func)
\*   list_requests   waiting for review_provider.list_requests
\*   prompt_start    waiting for the answer to "Start the reviews?"
\*   prompt_review   waiting for the answer to "Review <id>?"
\*   get_request_diff  waiting for review_provider.get_request_diff
\*   prompt_approve  waiting for the answer to "Approve <id>?"
\*   approve_request waiting for review_provider.approve_request
\*   returned        reviews.main returned
\*   raised          an exception left reviews.main
\*   exited          the process ended

Init ==
    /\ args \in Namespaces
    /\ pc = "main"
    /\ provider = None
    /\ requests = << >>
    /\ index = 0
    /\ diff_content = ""
    /\ exc = None
    /\ exit_status = None
    /\ trace = << >>
    /\ call = None
    /\ cmds = << >>
    /\ result = None

Upper(name) == IF name = "gitea" THEN "GITEA" ELSE "OBS"

\* reviews.main up to the list_requests call
Main ==
    /\ pc = "main"
    /\ LET err == _validate_args(args) IN
         IF err # None
         THEN /\ trace' = Append(trace, Call("console_print", 0,
                                << "[bold red]Error: ", Value(err), "[/bold red]" >>, None))
              /\ pc' = "returned"
              /\ UNCHANGED provider
         ELSE /\ trace' = Append(trace, Call("get_review_provider", 0, provider_name(args),
                                     Some(provider_name(args))))
              /\ provider' = Some(provider_name(args))
              /\ pc' = "list_requests"
    /\ UNCHANGED <<args, requests, index, diff_content, exc, exit_status>>
    /\ UNCHANGED provider_vars

\* Calls made by _fetch_and_filter_requests and main once list_requests
\* returned all_requests without the filter raising.
ListedCalls(all_requests, a) ==
    << Call("list_requests", 0, build_list_params(provider_name(a), a),
            Some(all_requests)) >>
    \o ( IF not_found_ids(all_requests, a) # {}
         THEN << Call("console_print", 0,
                   << "[bold yellow]Warning: The following PRs were not found: ",
                      not_found_ids(all_requests, a), "[/bold yellow]" >>, None) >>
         ELSE << >> )
    \o << Call("print_panel", 0,
            << show_request_list(filtered_requests(all_requests, a)),
               << "Request Reviews for ", Upper(provider_name(a)) >> >>, None) >>

\* main without the "if not requests: return" guard
AfterListed_without_guard(reqs) == "prompt_start"

\* main after the list panel: "if not requests: return", else the loop.
AfterListed(reqs) == IF Len(reqs) = 0 THEN "returned" ELSE "prompt_start"

\* list_requests returns: filter, render the list, return if it is empty.
ListRequestsReturns ==
    /\ pc = "list_requests"
    /\ \E all_requests \in BackendLists(Value(provider)) :
         IF FilterRaises(all_requests, args)
         THEN /\ trace' = Append(trace, Call("list_requests", 0,
                                   build_list_params(provider_name(args), args),
                                   Some(all_requests)))
              /\ exc' = Some("RelxInvalidParamsError")
              /\ pc' = "raised"
              /\ UNCHANGED requests
         ELSE /\ trace' = trace \o ListedCalls(all_requests, args)
              /\ requests' = filtered_requests(all_requests, args)
              /\ pc' = AfterListed(requests')
              /\ UNCHANGED exc
    /\ UNCHANGED <<args, provider, index, diff_content, exit_status>>
    /\ UNCHANGED provider_vars

\* list_requests raises: nothing in reviews.main catches it.
ListRequestsFails ==
    /\ pc = "list_requests"
    /\ trace' = Append(trace, Call("list_requests", 0,
                         build_list_params(provider_name(args), args), None))
    /\ exc' = Some("RuntimeError")
    /\ pc' = "raised"
    /\ UNCHANGED <<args, provider, requests, index, diff_content, exit_status>>
    /\ UNCHANGED provider_vars

----------------------------------------------------------------------------
\* _process_review_loop

total_requests == Len(requests)

\* What follows each answer: the branches of the if/elif chains.
\* start_outcome with the answer ignored
start_outcome_ignores_no(ans) == "loop"

start_outcome(ans) == IF ans = "n" THEN "cancel" ELSE "loop"

\* review_outcome with a final else that raises: "n" cancels like "a".
review_outcome_no_cancels(ans) == IF ans = "y" THEN "diff" ELSE "cancel"

\* review_outcome with the abort branch missing: "a" skips like "n".
review_outcome_abort_skips(ans) == IF ans = "y" THEN "diff" ELSE "next"

review_outcome(ans) ==
    IF ans = "y" THEN "diff" ELSE IF ans = "a" THEN "cancel" ELSE "next"

\* approval_outcome approving on anything but abort: "n" approves like "y".
approval_outcome_no_approves(ans) == IF ans = "a" THEN "cancel" ELSE "approve"

\* approval_outcome with the abort branch missing: "a" skips like "n".
approval_outcome_abort_skips(ans) == IF ans = "y" THEN "approve" ELSE "next"

approval_outcome(ans) ==
    IF ans = "y" THEN "approve" ELSE IF ans = "a" THEN "cancel" ELSE "next"

\* enumerate(requests, start=1) has another item after position i.
HasNext(i) == i < total_requests

\* ReviewPromptText with the 0-based index of a plain enumerate(requests)
ReviewPromptText_zero_based(i) ==
    << ">>> [", i - 1, "/", total_requests, "] Review ", requests[i].id, " - ",
       requests[i].name, "?" >>

\* Progress shown in the review prompt of the request at position i.
ReviewPromptText(i) ==
    << ">>> [", i, "/", total_requests, "] Review ", requests[i].id, " - ",
       requests[i].name, "?" >>

ApprovePromptText(i) ==
    << ">>> Approve ", requests[i].id, " - ", requests[i].name, "?" >>

\* EndOfIteration returning without the completion panel
EndOfIteration_without_panel(tr) ==
    /\ index' = IF HasNext(index) THEN index + 1 ELSE index
    /\ pc' = IF HasNext(index) THEN "prompt_review" ELSE "returned"
    /\ trace' = tr

\* The end of one iteration of the for loop, after the calls tr: the next
\* item's prompt, or the completion panel and the return of main.
EndOfIteration(tr) ==
    IF HasNext(index)
    THEN /\ index' = index + 1
         /\ pc' = "prompt_review"
         /\ trace' = tr
    ELSE /\ index' = index
         /\ pc' = "returned"
         /\ trace' = Append(tr, Call("print_panel", 0, << << "All reviews done." >>, NoTitle >>, None))

\* raise RelxUserCancelError after the calls tr
Cancel(tr) ==
    /\ exc' = Some("RelxUserCancelError")
    /\ pc' = "raised"
    /\ trace' = tr
    /\ UNCHANGED index

\* Prompt.ask(">>> Start the reviews (N)?", choices=["y", "n"])
AnswerStart ==
    /\ pc = "prompt_start"
    /\ \E ans \in {"y", "n"} :
         LET tr == Append(trace, Call("prompt_start", 0,
                            << ">>> Start the reviews (", total_requests, ")?" >>, Some(ans)))
         IN  IF start_outcome(ans) = "cancel"
             THEN Cancel(tr)
             ELSE /\ index' = 1
                  /\ pc' = "prompt_review"
                  /\ trace' = tr
                  /\ UNCHANGED exc
    /\ UNCHANGED <<args, provider, requests, diff_content, exit_status>>
    /\ UNCHANGED provider_vars

\* Prompt.ask(">>> [i/N] Review ...?", choices=["y", "n", "a"])
AnswerReview ==
    /\ pc = "prompt_review"
    /\ \E ans \in {"y", "n", "a"} :
         LET tr == Append(trace, Call("prompt_review", index, ReviewPromptText(index), Some(ans)))
             o  == review_outcome(ans)
         IN  CASE o = "cancel" -> Cancel(tr)
               [] o = "diff"   -> /\ pc' = "get_request_diff"
                                  /\ trace' = tr
                                  /\ UNCHANGED <<index, exc>>
               [] OTHER        -> EndOfIteration(tr) /\ UNCHANGED exc
    /\ UNCHANGED <<args, provider, requests, diff_content, exit_status>>
    /\ UNCHANGED provider_vars

\* pager_command called without the fetched text
PagerArgs_without_diff(content) == << << "delta" >>, "" >>

\* pager_command(["delta"], diff_content)
PagerArgs(content) == << << "delta" >>, content >>

\* get_request_diff called a second time before its text goes to the pager
GetRequestDiffReturns_fetches_twice ==
    /\ pc = "get_request_diff"
    /\ \E text \in DiffTexts :
         /\ diff_content' = text
         /\ trace' = trace \o
              << Call("get_request_diff", index,
                   build_get_request_diff_params(Value(provider), requests[index].id, args),
                   Some(text)),
                 Call("get_request_diff", index,
                   build_get_request_diff_params(Value(provider), requests[index].id, args),
                   Some(text)),
                 Call("pager_command", index, PagerArgs(diff_content'), None) >>
    /\ pc' = "prompt_approve"
    /\ UNCHANGED <<args, provider, requests, index, exc, exit_status>>
    /\ UNCHANGED provider_vars

\* get_request_diff returns and the text is not handed to the pager
GetRequestDiffReturns_without_pager ==
    /\ pc = "get_request_diff"
    /\ \E text \in DiffTexts :
         /\ diff_content' = text
         /\ trace' = Append(trace,
                Call("get_request_diff", index,
                   build_get_request_diff_params(Value(provider), requests[index].id, args),
                   Some(text)))
    /\ pc' = "prompt_approve"
    /\ UNCHANGED <<args, provider, requests, index, exc, exit_status>>
    /\ UNCHANGED provider_vars

\* get_request_diff returns the diff text, which goes to the pager.
GetRequestDiffReturns ==
    /\ pc = "get_request_diff"
    /\ \E text \in DiffTexts :
         /\ diff_content' = text
         /\ trace' = trace \o
              << Call("get_request_diff", index,
                   build_get_request_diff_params(Value(provider), requests[index].id, args),
                   Some(text)),
                 Call("pager_command", index, PagerArgs(diff_content'), None) >>
    /\ pc' = "prompt_approve"
    /\ UNCHANGED <<args, provider, requests, index, exc, exit_status>>
    /\ UNCHANGED provider_vars

\* get_request_diff raises and the loop catches it, going on with the next request
GetRequestDiffFails_caught ==
    /\ pc = "get_request_diff"
    /\ EndOfIteration(Append(trace, Call("get_request_diff", index,
                   build_get_request_diff_params(Value(provider), requests[index].id, args),
                   None)))
    /\ UNCHANGED <<args, provider, requests, diff_content, exc, exit_status>>
    /\ UNCHANGED provider_vars

\* get_request_diff raises: the loop does not catch it.
GetRequestDiffFails ==
    /\ pc = "get_request_diff"
    /\ trace' = Append(trace, Call("get_request_diff", index,
                   build_get_request_diff_params(Value(provider), requests[index].id, args),
                   None))
    /\ exc' = Some("RuntimeError")
    /\ pc' = "raised"
    /\ UNCHANGED <<args, provider, requests, index, diff_content, exit_status>>
    /\ UNCHANGED provider_vars

\* Prompt.ask(">>> Approve ...?", choices=["y", "n", "a"])
AnswerApproval ==
    /\ pc = "prompt_approve"
    /\ \E ans \in {"y", "n", "a"} :
         LET tr == Append(trace, Call("prompt_approve", index, ApprovePromptText(index), Some(ans)))
             o  == approval_outcome(ans)
         IN  CASE o = "cancel"  -> Cancel(tr)
               [] o = "approve" -> /\ pc' = "approve_request"
                                   /\ trace' = tr
                                   /\ UNCHANGED <<index, exc>>
               [] OTHER         -> EndOfIteration(tr) /\ UNCHANGED exc
    /\ UNCHANGED <<args, provider, requests, diff_content, exit_status>>
    /\ UNCHANGED provider_vars

\* approve_request returns its lines, which are shown in a panel.
ApproveRequestReturns ==
    /\ pc = "approve_request"
    /\ \E lines \in ApprovalLines :
         EndOfIteration(trace \o
              << Call("approve_request", index,
                   build_approve_request_params(Value(provider), requests[index].id, args),
                   Some(lines)),
                 Call("print_panel", index, << lines, NoTitle >>, None) >>)
    /\ UNCHANGED <<args, provider, requests, diff_content, exc, exit_status>>
    /\ UNCHANGED provider_vars

\* approve_request raises: the loop does not catch it.
ApproveRequestFails ==
    /\ pc = "approve_request"
    /\ trace' = Append(trace, Call("approve_request", index,
                   build_approve_request_params(Value(provider), requests[index].id, args),
                   None))
    /\ exc' = Some("RuntimeError")
    /\ pc' = "raised"
    /\ UNCHANGED <<args, provider, requests, index, diff_content, exit_status>>
    /\ UNCHANGED provider_vars

----------------------------------------------------------------------------
\* cli.py: the try/except around args.func(args, config)

\* the except clause of RelxUserCancelError ending with sys.exit(1)
ExitStatusFor_cancel_fails(e) == 1

\* Exit status for an exception that left the subcommand; an exception no
\* except clause names ends the interpreter with status 1.
ExitStatusFor(e) ==
    IF e = "RelxUserCancelError" THEN 0 ELSE 1

CliExit ==
    /\ pc \in {"returned", "raised"}
    /\ pc' = "exited"
    /\ exit_status' = Some(IF pc = "returned" THEN 0 ELSE ExitStatusFor(Value(exc)))
    /\ trace' =
         IF pc = "raised" /\ Value(exc) = "RelxUserCancelError"
         THEN Append(trace, Call("stderr", 0, "Operation cancelled by user.", None))
         ELSE IF pc = "raised" /\ Value(exc) = "RuntimeError"
         THEN Append(trace, Call("stderr", 0, "Error: RuntimeError", None))
         ELSE trace
    /\ UNCHANGED <<args, provider, requests, index, diff_content, exc>>
    /\ UNCHANGED provider_vars

Next ==
    \/ Main
    \/ ListRequestsReturns
    \/ ListRequestsFails
    \/ AnswerStart
    \/ AnswerReview
    \/ GetRequestDiffReturns
    \/ GetRequestDiffFails
    \/ AnswerApproval
    \/ ApproveRequestReturns
    \/ ApproveRequestFails
    \/ CliExit

Spec == Init /\ [][Next]_vars

\* A review run in which every prompt is answered, every backend call
\* returns or raises, and the command line exits once the subcommand is over.
FairSpec == Spec /\ WF_vars(Next)

----------------------------------------------------------------------------
\* Properties of the review workflow, stated over the recorded calls.

Cancelled == exc = Some("RelxUserCancelError") /\ pc \in {"raised", "exited"}

\* Number of calls of op made for the request at position i.
Count(op, i) == Cardinality({ k \in DOMAIN trace : trace[k].op = op /\ trace[k].idx = i })

\* The prompt op was answered ans at trace position k.
Answered(k, op, ans) == trace[k].op = op /\ trace[k].ret = Some(ans)

\* Calls the loop makes for a request once its review prompt was answered yes.
CycleOps == {"get_request_diff", "pager_command", "prompt_approve", "approve_request"}

\* Nothing but the command line's own notice follows trace position k.
NothingAfter(k) == \A j \in DOMAIN trace : j > k => trace[j].op = "stderr"

\* C1: once abort ('a') is answered at the review prompt of item i, the run is
\* cancelled (RelxUserCancelError) at once: no get_request_diff, pager,
\* approval prompt or approve_request call exists for item i, no call is
\* made for any later item, and no prompt or backend call follows the answer.
C1_AbortAtReviewPrompt ==
    \A k \in DOMAIN trace :
        Answered(k, "prompt_review", "a") =>
            /\ Cancelled
            /\ \A op \in CycleOps : Count(op, trace[k].idx) = 0
            /\ \A j \in DOMAIN trace : trace[j].idx <= trace[k].idx
            /\ NothingAfter(k)

\* Abort answered at the first of several requests, after which main has raised.
C1_Witness ==
    /\ pc = "raised"
    /\ Len(requests) >= 2
    /\ \E k \in DOMAIN trace : Answered(k, "prompt_review", "a") /\ trace[k].idx = 1

\* C2: once abort ('a') is answered at the approval prompt of item i, the run
\* is cancelled at once: approve_request is not called for item i, no call is
\* made for any later item, no backend call follows the answer, and the
\* approve_request calls made for earlier items stay the only ones.
C2_AbortAtApprovalPrompt ==
    \A k \in DOMAIN trace :
        Answered(k, "prompt_approve", "a") =>
            /\ Cancelled
            /\ Count("approve_request", trace[k].idx) = 0
            /\ Count("get_request_diff", trace[k].idx) = 1
            /\ \A j \in DOMAIN trace : trace[j].idx <= trace[k].idx
            /\ NothingAfter(k)
            /\ \A j \in DOMAIN trace :
                  trace[j].op = "approve_request" =>
                      /\ j < k
                      /\ trace[j].idx < trace[k].idx
                      /\ \E a \in DOMAIN trace :
                            a < j /\ Answered(a, "prompt_approve", "y")
                                  /\ trace[a].idx = trace[j].idx

\* Abort at the approval prompt of the second request after the first one
\* was approved.
C2_Witness ==
    /\ pc = "raised"
    /\ \E k \in DOMAIN trace : Answered(k, "prompt_approve", "a") /\ trace[k].idx = 2
    /\ \E j \in DOMAIN trace :
          trace[j].op = "approve_request" /\ trace[j].idx = 1 /\ trace[j].ret # None

\* Calls made for the request at position i, by operation.
At(k, op, i) == trace[k].op = op /\ trace[k].idx = i

\* C3: for every request answered yes at the review prompt and yes at the
\* approval prompt, get_request_diff was called exactly once, with that
\* request's id; the pager was called exactly once, right after it, with the
\* text that call returned; approve_request is called exactly once (the call
\* pending while the run waits in it), with that request's id; and when it is
\* the only request and approve_request returned, the completion panel
\* follows the approval panel and main returns.
C3_YesYes ==
    \A i \in 1..Len(requests) :
        ( /\ \E a \in DOMAIN trace : Answered(a, "prompt_review", "y") /\ trace[a].idx = i
          /\ \E b \in DOMAIN trace : Answered(b, "prompt_approve", "y") /\ trace[b].idx = i )
        =>
        /\ Count("get_request_diff", i) = 1
        /\ Count("pager_command", i) = 1
        /\ \A d \in DOMAIN trace :
              At(d, "get_request_diff", i) =>
                  /\ trace[d].arg.request_id = requests[i].id
                  /\ trace[d].ret # None
                  /\ At(d + 1, "pager_command", i)
                  /\ trace[d + 1].arg = << << "delta" >>, Value(trace[d].ret) >>
        /\ Count("approve_request", i) = IF pc = "approve_request" /\ index = i THEN 0 ELSE 1
        /\ \A c \in DOMAIN trace :
              At(c, "approve_request", i) =>
                  /\ trace[c].arg.request_id = requests[i].id
                  /\ \E d \in DOMAIN trace : d < c /\ At(d, "pager_command", i)
                  /\ (Len(requests) = 1 /\ trace[c].ret # None) =>
                        /\ Len(trace) = c + 2
                        /\ At(c + 1, "print_panel", i)
                        /\ trace[c + 1].arg = << Value(trace[c].ret), << >> >>
                        /\ At(c + 2, "print_panel", 0)
                        /\ trace[c + 2].arg[2] = << >>
                        /\ trace[c + 2].arg[1] = << "All reviews done." >>
                        /\ pc \in {"returned", "exited"}
                        /\ exc = None

\* The single request was reviewed and approved, with a non-empty diff, and
\* main has returned.
C3_Witness ==
    /\ pc = "returned"
    /\ Len(requests) = 1
    /\ \E a \in DOMAIN trace : Answered(a, "prompt_review", "y")
    /\ \E b \in DOMAIN trace : Answered(b, "prompt_approve", "y")
    /\ \E d \in DOMAIN trace : At(d, "get_request_diff", 1) /\ trace[d].ret = Some("This is a diff")
    /\ \E c \in DOMAIN trace : At(c, "approve_request", 1) /\ trace[c].ret # None

\* list_requests returned and the filter did not raise.
Listed == \E k \in DOMAIN trace : At(k, "print_panel", 0) /\ trace[k].arg[2] # << >>

\* C4: once the fetched-and-filtered request set is empty, the only panel
\* is the request list with the single line "No pending reviews.", main has
\* returned normally, and no prompt, get_request_diff, pager or
\* approve_request call is ever made.
C4_NoPendingReviews ==
    (Listed /\ Len(requests) = 0) =>
        /\ pc \in {"returned", "exited"}
        /\ exc = None
        /\ exit_status \in {None, Some(0)}
        /\ \A k \in DOMAIN trace :
              /\ trace[k].op \notin {"prompt_start", "prompt_review", "prompt_approve",
                                     "get_request_diff", "pager_command", "approve_request"}
              /\ trace[k].op = "print_panel" =>
                    /\ k = Len(trace)
                    /\ trace[k].arg[1] = << "No pending reviews." >>
                    /\ trace[k].arg[2] = << "Request Reviews for ", Upper(Value(provider)) >>

\* main returned on an empty set that the --prs filter emptied.
C4_Witness ==
    /\ pc = "returned"
    /\ Listed
    /\ Len(requests) = 0
    /\ \E k \in DOMAIN trace :
          At(k, "list_requests", 0) /\ trace[k].ret # None /\ Len(Value(trace[k].ret)) > 0

PerItemOps == {"prompt_review", "prompt_approve", "get_request_diff", "pager_command",
               "approve_request"}

\* C5: with a non-empty request set the start prompt is asked exactly once
\* (it is pending while the run waits at it), before every per-item prompt
\* and call; once it is answered no ('n') the run is cancelled and no
\* per-item prompt, get_request_diff, pager or approve_request call exists.
C5_StartPrompt ==
    /\ Len(requests) > 0 =>
          Count("prompt_start", 0) = IF pc = "prompt_start" THEN 0 ELSE 1
    /\ \A s \in DOMAIN trace :
          trace[s].op = "prompt_start" =>
              /\ trace[s].arg = << ">>> Start the reviews (", Len(requests), ")?" >>
              /\ \A j \in DOMAIN trace : trace[j].op \in PerItemOps => s < j
              /\ Answered(s, "prompt_start", "n") =>
                    /\ Cancelled
                    /\ NothingAfter(s)
                    /\ \A j \in DOMAIN trace : trace[j].op \notin PerItemOps

\* The start prompt was refused with requests listed, and main has raised.
C5_Witness ==
    /\ pc = "raised"
    /\ Len(requests) >= 1
    /\ \E s \in DOMAIN trace : Answered(s, "prompt_start", "n")

\* Position of an operation within one request's cycle.
Rank(op) ==
    CASE op = "prompt_review"    -> 1
      [] op = "get_request_diff" -> 2
      [] op = "pager_command"    -> 3
      [] op = "prompt_approve"   -> 4
      [] op = "approve_request"  -> 5
      [] OTHER                   -> 6

\* The call at trace position k ends the cycle of its request.
EndsCycle(k) ==
    \/ Answered(k, "prompt_review", "n")
    \/ Answered(k, "prompt_approve", "n")
    \/ trace[k].op = "print_panel"

\* C6: requests are processed one at a time in the order of the filtered
\* list: the calls made for requests are contiguous and never go back to an
\* earlier request, the calls for one request follow the cycle prompt, diff,
\* pager, approval prompt, approve, panel; the n-th review prompt is for the n-th request of
\* the filtered list_requests result and shows [n/total] with its id; and
\* it directly follows the call that ended the previous request's cycle.
C6_FetchOrder ==
    /\ \A k \in 2..Len(trace) :
          trace[k - 1].idx > 0 =>
              IF trace[k].idx > 0
              THEN /\ trace[k - 1].idx <= trace[k].idx
                   /\ trace[k - 1].idx = trace[k].idx =>
                         Rank(trace[k - 1].op) < Rank(trace[k].op)
              ELSE \A j \in k..Len(trace) : trace[j].idx = 0
    /\ \A l \in DOMAIN trace :
          (At(l, "list_requests", 0) /\ trace[l].ret # None /\ Listed) =>
              /\ requests = filtered_requests(Value(trace[l].ret), args)
              /\ \A k \in DOMAIN trace : trace[k].op \in PerItemOps => l < k
    /\ \A k \in DOMAIN trace :
          trace[k].op = "prompt_review" =>
              /\ trace[k].idx = Cardinality({ j \in 1..k : trace[j].op = "prompt_review" })
              /\ trace[k].idx <= Len(requests)
              /\ trace[k].arg = << ">>> [", trace[k].idx, "/", Len(requests), "] Review ",
                                   requests[trace[k].idx].id, " - ",
                                   requests[trace[k].idx].name, "?" >>
              /\ IF trace[k].idx = 1
                 THEN Answered(k - 1, "prompt_start", "y")
                 ELSE trace[k - 1].idx = trace[k].idx - 1 /\ EndsCycle(k - 1)

\* Two requests listed in descending id order, the first approved and the
\* second at its approval prompt.
C6_Witness ==
    /\ Len(requests) = 2
    /\ IntOf(requests[1].id) > IntOf(requests[2].id)
    /\ pc = "prompt_approve"
    /\ index = 2
    /\ \E c \in DOMAIN trace : At(c, "approve_request", 1) /\ trace[c].ret # None

\* After the call at trace position k ended the cycle of request i, the loop
\* is at request i + 1, or, i being the last, the completion panel was shown
\* and main returned.
Advanced(k, i) ==
    IF i < Len(requests)
    THEN IF k = Len(trace)
         THEN pc = "prompt_review" /\ index = i + 1 /\ exc = None
         ELSE At(k + 1, "prompt_review", i + 1)
    ELSE /\ k < Len(trace)
         /\ At(k + 1, "print_panel", 0)
         /\ trace[k + 1].arg[2] = << >>
         /\ trace[k + 1].arg[1] = << "All reviews done." >>
         /\ pc \in {"returned", "exited"}
         /\ exc = None

\* C7: once no ('n') is answered at the review prompt of item i, no
\* get_request_diff, pager, approval prompt or approve_request call exists
\* for item i, and the loop has advanced to item i + 1, or to completion
\* when i is the last item.
C7_SkipAtReviewPrompt ==
    \A k \in DOMAIN trace :
        Answered(k, "prompt_review", "n") =>
            /\ \A op \in CycleOps : Count(op, trace[k].idx) = 0
            /\ Advanced(k, trace[k].idx)

\* The first of two requests was skipped and the second one, skipped too,
\* was the last.
C7_Witness ==
    /\ pc = "returned"
    /\ Len(requests) = 2
    /\ \E k \in DOMAIN trace : Answered(k, "prompt_review", "n") /\ trace[k].idx = 1
    /\ \E k \in DOMAIN trace : Answered(k, "prompt_review", "n") /\ trace[k].idx = 2

\* C8: once yes was answered at the review prompt and no ('n') at the
\* approval prompt of item i, the diff of item i was fetched once and handed
\* to the pager once, approve_request is not called for item i, and the loop
\* has advanced to item i + 1, or to completion, without cancellation.
C8_SkipAtApprovalPrompt ==
    \A k \in DOMAIN trace :
        Answered(k, "prompt_approve", "n") =>
            LET i == trace[k].idx IN
            /\ \E a \in 1..k : Answered(a, "prompt_review", "y") /\ trace[a].idx = i
            /\ \E d \in 1..k :
                  /\ At(d, "get_request_diff", i)
                  /\ trace[d].ret # None
                  /\ At(d + 1, "pager_command", i)
                  /\ trace[d + 1].arg[2] = Value(trace[d].ret)
            /\ Count("get_request_diff", i) = 1
            /\ Count("pager_command", i) = 1
            /\ Count("approve_request", i) = 0
            /\ Count("print_panel", i) = 0
            /\ Advanced(k, i)

\* The first of two requests was reviewed but not approved, and the loop
\* waits at the second one's review prompt.
C8_Witness ==
    /\ pc = "prompt_review"
    /\ index = 2
    /\ \E k \in DOMAIN trace : Answered(k, "prompt_approve", "n") /\ trace[k].idx = 1

\* "All reviews done." was shown at trace position k.
DonePanel(k) ==
    /\ At(k, "print_panel", 0)
    /\ trace[k].arg[2] = << >>
    /\ trace[k].arg[1] = << "All reviews done." >>

DoneReported == \E k \in DOMAIN trace : DonePanel(k)

\* The cycle of the last listed request has ended without an abort.
PassedLastItem ==
    /\ Len(requests) > 0
    /\ \E k \in DOMAIN trace : trace[k].idx = Len(requests) /\ EndsCycle(k)

\* C9: "All reviews done." is reported exactly when the cycle of the last
\* request has ended; it is then the last call of the run, made once, after
\* a start prompt answered yes and a review prompt answered yes or no for
\* every request; and it is never reported in a run that raised (cancelled,
\* backend failure), failed validation or listed nothing.
C9_AllReviewsDone ==
    /\ DoneReported <=> PassedLastItem
    /\ DoneReported =>
          /\ DonePanel(Len(trace))
          /\ Cardinality({ k \in DOMAIN trace : DonePanel(k) }) = 1
          /\ pc \in {"returned", "exited"}
          /\ exc = None
          /\ \E s \in DOMAIN trace : Answered(s, "prompt_start", "y")
          /\ \A i \in 1..Len(requests) :
                \E k \in DOMAIN trace :
                    /\ trace[k].idx = i
                    /\ Answered(k, "prompt_review", "y") \/ Answered(k, "prompt_review", "n")
          /\ \A k \in DOMAIN trace :
                trace[k].op \in {"prompt_review", "prompt_approve"} => trace[k].ret # Some("a")
    /\ (exc # None \/ _validate_args(args) # None \/ Len(requests) = 0) => ~DoneReported
    /\ (pc \in {"returned", "exited"} /\ exc = None /\ Len(requests) > 0) => DoneReported

\* Two requests, one skipped and one reviewed but not approved, and the
\* completion panel shown.
C9_Witness ==
    /\ pc = "returned"
    /\ Len(requests) = 2
    /\ DoneReported
    /\ \E k \in DOMAIN trace : Answered(k, "prompt_review", "n")
    /\ \E k \in DOMAIN trace : Answered(k, "prompt_approve", "n")

\* C10: with --project given together with --repository, --branch and
\* --reviewer, main prints the "not both" error and returns: no review
\* provider is constructed, list_requests is not called and no prompt is
\* shown.
C10_MixedArgsRejected ==
    (args.project # None /\ Truthy(args.repository) /\ Truthy(args.branch)
       /\ Truthy(args.reviewer) /\ pc # "main") =>
        /\ trace = << Call("console_print", 0,
                        << "[bold red]Error: ", MsgBoth, "[/bold red]" >>, None) >>
        /\ provider = None
        /\ pc \in {"returned", "exited"}
        /\ exc = None

\* main returned on arguments naming both backends.
C10_Witness ==
    /\ pc = "returned"
    /\ args.project # None
    /\ Truthy(args.repository) /\ Truthy(args.branch) /\ Truthy(args.reviewer)
    /\ Len(trace) = 1

\* The argument combinations _validate_args is to reject: no backend named,
\* --staging or --bugowner without --project, --prs without the three forge
\* arguments, --prs with an entry that is not a number.
InvalidArgs ==
    LET forge == Truthy(args.repository) /\ Truthy(args.branch) /\ Truthy(args.reviewer)
    IN  \/ args.project = None /\ ~forge
        \/ (args.staging # None \/ args.bugowner) /\ args.project = None
        \/ TruthyChars(args.prs) /\ ~forge
        \/ TruthyChars(args.prs) /\ PrsRaises(Value(args.prs))

\* C11: on every argument combination that fails validation, all the run
\* does is print one error: no review provider is constructed, no backend
\* operation is called and no prompt is shown.
C11_InvalidArgsRejected ==
    (InvalidArgs /\ pc # "main") =>
        /\ Len(trace) = 1
        /\ trace[1].op = "console_print"
        /\ trace[1].arg[1] = "[bold red]Error: "
        /\ provider = None
        /\ requests = << >>
        /\ pc \in {"returned", "exited"}

\* main returned on a --prs value with an entry that is not a number.
C11_Witness ==
    /\ pc = "returned"
    /\ args.project = None
    /\ Truthy(args.repository) /\ Truthy(args.branch) /\ Truthy(args.reviewer)
    /\ TruthyChars(args.prs) /\ PrsRaises(Value(args.prs))
    /\ Len(trace) = 1

\* The answer recorded at trace position k cancels the run.
CancelAnswer(k) ==
    \/ Answered(k, "prompt_start", "n")
    \/ Answered(k, "prompt_review", "a")
    \/ Answered(k, "prompt_approve", "a")

\* C12: a cancellation at the start prompt, a review prompt or an approval
\* prompt leaves reviews.main as RelxUserCancelError; the command line
\* catches it, prints the cancellation notice and exits with status 0.
C12_CancelReachesCli ==
    \A k \in DOMAIN trace :
        CancelAnswer(k) =>
            /\ exc = Some("RelxUserCancelError")
            /\ pc \in {"raised", "exited"}
            /\ pc = "raised" => k = Len(trace) /\ exit_status = None
            /\ pc = "exited" =>
                 /\ k = Len(trace) - 1
                 /\ trace[Len(trace)].op = "stderr"
                 /\ trace[Len(trace)].arg = "Operation cancelled by user."
                 /\ exit_status = Some(0)

\* the process exited after an abort at an approval prompt.
C12_Witness ==
    /\ pc = "exited"
    /\ exit_status = Some(0)
    /\ \E k \in DOMAIN trace : Answered(k, "prompt_approve", "a")

\* The backend call recorded at trace position k raised.
BackendFailed(k) ==
    /\ trace[k].op \in {"get_request_diff", "approve_request"}
    /\ trace[k].ret = None

\* C13: when get_request_diff or approve_request raises for item i, the
\* error leaves the loop: the run ends with RuntimeError, no prompt or
\* backend call is made for a later item, and "All reviews done." is not
\* reported.
C13_BackendFailureIsFatal ==
    \A k \in DOMAIN trace :
        BackendFailed(k) =>
            /\ exc = Some("RuntimeError")
            /\ pc \in {"raised", "exited"}
            /\ NothingAfter(k)
            /\ \A j \in DOMAIN trace : trace[j].idx <= trace[k].idx
            /\ ~DoneReported

\* get_request_diff raised for the first of two requests.
C13_Witness ==
    /\ Len(requests) = 2
    /\ pc = "raised"
    /\ \E k \in DOMAIN trace :
         trace[k].op = "get_request_diff" /\ trace[k].idx = 1 /\ trace[k].ret = None

\* The run ended in an error: main printed a validation error, or an
\* exception other than the cancellation left it.
ErrorOutcome ==
    \/ \E k \in DOMAIN trace :
         /\ trace[k].op = "console_print"
         /\ trace[k].arg[1] = "[bold red]Error: "
    \/ exc # None /\ exc # Some("RelxUserCancelError")

\* C14: every run that ends in an error (a validation error or a backend
\* failure) exits with the failure status 1.
C14_ErrorsExitWithFailure ==
    (pc = "exited" /\ ErrorOutcome) => exit_status = Some(1)

----------------------------------------------------------------------------
\* The review providers (providers/obs_review.py, providers/gitea_review.py),
\* called directly with a command_runner whose outcome is chosen freely, as
\* the tests of the providers do with a mock.
\*
\* A positional argument is a record: a parameter object carries its class
\* in variant ("obs" or "gitea"), a plain str is [variant |-> "str", ...].
\* Request ids and command output are strings; an f-string is the tuple of
\* its parts.

\* Largest number of request elements in one build-service response.
MaxCandidates == 2

ApiUrl == "https://api.fake.obs"

Str(s) == [variant |-> "str", value |-> s]

ObsListRequestsParams ==
    [ variant : {"obs"}, project : {Some("fake-project")}, staging : Stagings,
      is_bugowner_request : BOOLEAN ]

GiteaListRequestsParams ==
    [ variant : {"gitea"}, repository : {None, Some("my-repo")}, branch : {Some("main")},
      reviewer : {Some(""), Some("me")} ]

ObsGetRequestDiffParams == [ variant : {"obs"}, request_id : {"123"} ]

GiteaGetRequestDiffParams ==
    [ variant : {"gitea"}, request_id : {"101"}, repository : {Some("my-repo")} ]

ObsApproveRequestParams == [ variant : {"obs"}, request_id : {"123"}, is_bugowner : BOOLEAN ]

GiteaApproveRequestParams ==
    [ variant : {"gitea"}, request_id : {"101"}, repository : {Some("my-repo")},
      reviewer : {Some("me")} ]

\* Outcomes of one command_runner call: it raises RuntimeError, returns
\* None, or returns an object whose stdout is empty or not.
Outcome(kind, stdout) == [kind |-> kind, stdout |-> stdout]

Failures == { Outcome("raise", << >>), Outcome("none", << >>), Outcome("empty", << >>) }

\* The returned object is falsy or its stdout is: "not result or not result.stdout"
NoOutput(out) == out.kind \in {"none", "empty"}

Return(v) == Some([kind |-> "return", value |-> v])

Raise(e) == Some([kind |-> "raise", value |-> e])

\* One recorded command_runner call: the argument vector and its outcome.
Run(argv, out) == [argv |-> argv, out |-> out]

\* The sub-review elements of a request element.
ReviewNew == [by_group |-> "sle-release-managers", state |-> "new"]
ReviewAccepted == [by_group |-> "sle-release-managers", state |-> "accepted"]
OtherNew == [by_group |-> "sle-staging-managers", state |-> "new"]

ReviewLists ==
    { << >>, << ReviewNew >>, << ReviewAccepted >>, << OtherNew, ReviewNew >>,
      << ReviewAccepted, ReviewNew >> }

\* A request element without its id: the name of its first state child, its
\* review children, the package of action/target; absent parts are None.
Shapes ==
    { s \in [ state : {None, Some("review"), Some("declined")}, reviews : ReviewLists,
              has_id : BOOLEAN, package : {None, Some("pkg1")} ] :
        s.has_id \/ s.package # None }

\* The request element of shape s at position i of the response.
request_element(s, i) ==
    [ id |-> IF s.has_id THEN Some(StrOf(i)) ELSE None, state |-> s.state,
      reviews |-> s.reviews, package |-> s.package ]

\* The parsed response whose request children, in order, have the shapes f.
response_tree(f) == [ i \in DOMAIN f |-> request_element(f[i], i) ]

\* request_element.find("review[@by_group='sle-release-managers']"): the
\* first such child, or None.
relmgr_review(element) ==
    LET hits == SelectSeq(element.reviews, LAMBDA r : r.by_group = "sle-release-managers")
    IN  IF hits = << >> THEN None ELSE Some(hits[1])

\* the test on the state child without the comparison with "review"
is_in_review_any_state(element) == element.state # None

\* state_tag is not None and state_tag.get("name") == "review"
is_in_review(element) == element.state # None /\ Value(element.state) = "review"

\* the test on the group's review without the comparison with "new"
is_new_for_relmgr_any_state(element) == relmgr_review(element) # None

\* relmgr_review is not None and relmgr_review.get("state") == "new"
is_new_for_relmgr(element) ==
    relmgr_review(element) # None /\ Value(relmgr_review(element)).state = "new"

\* The nested conditions under which list_requests appends a Request.
Accepts(element) ==
    /\ is_in_review(element)
    /\ is_new_for_relmgr(element)
    /\ element.id # None
    /\ element.package # None

request_obj(element) ==
    [id |-> Value(element.id), name |-> Value(element.package), provider_type |-> "obs"]

\* The loop over tree.findall("request")
ParseRequests(tree) ==
    LET kept == SelectSeq(tree, Accepts)
    IN  [ i \in 1..Len(kept) |-> request_obj(kept[i]) ]

\* the queries with the staging test before the bugowner test
ObsListQuery_staging_first(p) ==
    IF Truthy(p.staging)
    THEN << "/search/request?match=state/@name='review' and review/@state='new' and review/@by_project='",
            Value(p.project), ":Staging:", Value(p.staging), "'&withhistory=0&withfullhistory=0" >>
    ELSE IF p.is_bugowner_request
    THEN << "/search/request?match=state/@name='review' and action/@type='set_bugowner' and action/target/@project='",
            Value(p.project), "'&withhistory=0&withfullhistory=0" >>
    ELSE << "/search/request?match=state/@name='review' and review/@state='new' and target/@project='",
            Value(p.project), "'&withhistory=0&withfullhistory=0" >>

\* The query of OBSReviewProvider.list_requests
ObsListQuery(p) ==
    IF p.is_bugowner_request
    THEN << "/search/request?match=state/@name='review' and action/@type='set_bugowner' and action/target/@project='",
            Value(p.project), "'&withhistory=0&withfullhistory=0" >>
    ELSE IF Truthy(p.staging)
    THEN << "/search/request?match=state/@name='review' and review/@state='new' and review/@by_project='",
            Value(p.project), ":Staging:", Value(p.staging), "'&withhistory=0&withfullhistory=0" >>
    ELSE << "/search/request?match=state/@name='review' and review/@state='new' and target/@project='",
            Value(p.project), "'&withhistory=0&withfullhistory=0" >>

\* The words str.split() makes of an argument interpolated in a command.
Words(x) ==
    IF x.variant = "str" THEN << x.value >>
    ELSE IF x.variant = "obs"
    THEN << << "ObsGetRequestDiffParams(request_id='", x.request_id, "')" >> >>
    ELSE << << "GiteaGetRequestDiffParams(request_id='", x.request_id, "'," >>,
            << "repository='", Value(x.repository), "')" >> >>

\* approve_request's group list with both groups whatever the flag
groups_always_both(is_bugowner) == << "sle-release-managers", "sle-staging-managers" >>

\* groups of OBSReviewProvider.approve_request
groups(is_bugowner) ==
    IF is_bugowner THEN << "sle-release-managers", "sle-staging-managers" >>
    ELSE << "sle-release-managers" >>

AcceptCommand(group, request_id) ==
    << "osc", "-A", ApiUrl, "review", "accept", "-m", "OK", "-G", group, request_id >>

DiffOutputs == { Outcome("out", "--- a/pkg1.spec") }

AcceptOutputs == { Outcome("out", "Accepted") }

CommentOutputs == { Outcome("out", "Comment added.") }

\* The JSON documents of the forge: text that is not JSON, an empty list, a
\* dict without "requests", and a "requests" list whose entries may lack
\* number or title (None).
Entries == [ has_number : BOOLEAN, title : {None, Some("Fix: A bug")} ]

entry(e, i) == [number |-> IF e.has_number THEN Some(100 + i) ELSE None, title |-> e.title]

requests_list(f) == [ i \in DOMAIN f |-> entry(f[i], i) ]

JsonDocuments(f) ==
    { [kind |-> "invalid", requests |-> << >>], [kind |-> "empty_list", requests |-> << >>],
      [kind |-> "no_requests", requests |-> << >>],
      [kind |-> "requests", requests |-> requests_list(f)] }

\* the loop keeping every entry that has a number, titled or not
ParseEntries_number_only(doc) ==
    LET kept == SelectSeq(doc.requests, LAMBDA e : e.number # None)
    IN  IF doc.kind = "requests"
        THEN [ i \in 1..Len(kept) |->
                 [id |-> StrOf(Value(kept[i].number)),
                  name |-> IF kept[i].title # None THEN Value(kept[i].title) ELSE "",
                  provider_type |-> "gitea"] ]
        ELSE << >>

\* The loop over data[0]["requests"]
ParseEntries(doc) ==
    LET kept == SelectSeq(doc.requests, LAMBDA e : e.number # None /\ e.title # None)
    IN  IF doc.kind = "requests"
        THEN [ i \in 1..Len(kept) |->
                 [id |-> StrOf(Value(kept[i].number)), name |-> Value(kept[i].title),
                  provider_type |-> "gitea"] ]
        ELSE << >>

\* The direct calls: each method of each provider with the parameter
\* objects of both variants, and the build-service methods that take plain
\* values with those.
ProviderCalls ==
    { [backend |-> b, method |-> "list_requests", args |-> << p >>] :
        b \in {"obs", "gitea"}, p \in ObsListRequestsParams \cup GiteaListRequestsParams }
    \cup { [backend |-> b, method |-> "get_request_diff", args |-> << p >>] :
        b \in {"obs", "gitea"}, p \in ObsGetRequestDiffParams \cup GiteaGetRequestDiffParams }
    \cup { [backend |-> b, method |-> "approve_request", args |-> << p >>] :
        b \in {"obs", "gitea"}, p \in ObsApproveRequestParams \cup GiteaApproveRequestParams }
    \cup { [backend |-> "obs", method |-> "get_request_diff", args |-> << Str("123") >>] }
    \cup { [backend |-> "obs", method |-> "approve_request", args |-> << Str("123"), b >>] :
        b \in BOOLEAN }

NoArgs ==
    [ project |-> None, staging |-> None, bugowner |-> FALSE, repository |-> None,
      branch |-> None, reviewer |-> None, prs |-> None ]

ProviderInit ==
    /\ call \in { Some(c) : c \in ProviderCalls }
    /\ cmds = << >>
    /\ result = None
    /\ pc = "provider_call"
    /\ args = NoArgs
    /\ provider = None
    /\ requests = << >>
    /\ index = 0
    /\ diff_content = ""
    /\ exc = None
    /\ exit_status = None
    /\ trace = << >>

Called(backend, method) ==
    /\ pc = "provider_call"
    /\ Value(call).backend = backend
    /\ Value(call).method = method

Done == pc' = "provider_done" /\ UNCHANGED <<vars_of_run, call>>

\* OBSReviewProvider.list_requests(params)
OBS_list_requests ==
    /\ Called("obs", "list_requests")
    /\ LET params == Value(call).args[1] IN
         IF params.variant # "obs"
         THEN cmds' = cmds /\ result' = Return(<< >>)
         ELSE \E n \in 0..MaxCandidates : \E f \in [ 1..n -> Shapes ] :
              \E out \in Failures \cup { Outcome("out", response_tree(f)) } :
                /\ cmds' = Append(cmds, Run(<< "osc", "-A", ApiUrl, "api", ObsListQuery(params) >>, out))
                /\ result' = IF out.kind = "raise" THEN Raise("RuntimeError")
                             ELSE IF NoOutput(out) THEN Return(<< >>)
                             ELSE Return(ParseRequests(out.stdout))
    /\ Done

\* OBSReviewProvider.get_request_diff(request_id): request_id is whatever
\* the caller passed.
OBS_get_request_diff ==
    /\ Called("obs", "get_request_diff")
    /\ \E out \in Failures \cup DiffOutputs :
         /\ cmds' = Append(cmds, Run(<< "osc", "-A", ApiUrl, "review", "show", "-d" >>
                                       \o Words(Value(call).args[1]), out))
         /\ result' = IF out.kind = "raise" THEN Raise("RuntimeError")
                      ELSE IF out.kind = "none" THEN Raise("AttributeError")
                      ELSE IF out.kind = "empty" THEN Return("")
                      ELSE Return(out.stdout)
    /\ Done

\* The accept commands run for the groups gs when the outcomes of the
\* command_runner are outs: up to and including the first that does not
\* return an object.
AcceptRuns(gs, request_id, outs) ==
    LET bad == { i \in DOMAIN gs : outs[i].kind \in {"raise", "none"} }
        last == IF bad = {} THEN Len(gs) ELSE CHOOSE i \in bad : \A j \in bad : i <= j
    IN  [ i \in 1..last |-> Run(AcceptCommand(gs[i], request_id), outs[i]) ]

\* approve_request catching a failed accept command and returning the lines
\* of the groups accepted before it
OBS_approve_request_partial_lines ==
    /\ Called("obs", "approve_request")
    /\ IF Len(Value(call).args) # 2
       THEN cmds' = cmds /\ result' = Raise("TypeError")
       ELSE LET request_id == Value(call).args[1].value
                gs == groups(Value(call).args[2])
            IN  \E outs \in [ DOMAIN gs -> Failures \cup AcceptOutputs ] :
                  LET runs == AcceptRuns(gs, request_id, outs)
                      ok == { i \in DOMAIN runs : runs[i].out.kind \in {"empty", "out"} }
                  IN  /\ cmds' = cmds \o runs
                      /\ result' =
                           Return([ i \in 1..Cardinality(ok) |->
                                      << gs[i], ": ",
                                         IF outs[i].kind = "empty" THEN "" ELSE outs[i].stdout >> ])
    /\ Done

\* OBSReviewProvider.approve_request(request_id, is_bugowner): a call with
\* one positional argument raises TypeError.
OBS_approve_request ==
    /\ Called("obs", "approve_request")
    /\ IF Len(Value(call).args) # 2
       THEN cmds' = cmds /\ result' = Raise("TypeError")
       ELSE LET request_id == Value(call).args[1].value
                gs == groups(Value(call).args[2])
            IN  \E outs \in [ DOMAIN gs -> Failures \cup AcceptOutputs ] :
                  LET runs == AcceptRuns(gs, request_id, outs)
                      final == runs[Len(runs)].out
                  IN  /\ cmds' = cmds \o runs
                      /\ result' =
                           IF final.kind = "raise" THEN Raise("RuntimeError")
                           ELSE IF final.kind = "none" THEN Raise("AttributeError")
                           ELSE Return([ i \in DOMAIN gs |->
                                          << gs[i], ": ",
                                             IF outs[i].kind = "empty" THEN "" ELSE outs[i].stdout >> ])
    /\ Done

\* GiteaReviewProvider.list_requests(params)
Gitea_list_requests ==
    /\ Called("gitea", "list_requests")
    /\ LET params == Value(call).args[1] IN
         IF params.variant # "gitea"
         THEN cmds' = cmds /\ result' = Return(<< >>)
         ELSE IF ~(Truthy(params.reviewer) /\ Truthy(params.branch) /\ Truthy(params.repository))
         THEN cmds' = cmds /\ result' = Return(<< >>)
         ELSE \E n \in 0..MaxCandidates : \E f \in [ 1..n -> Entries ] :
              \E out \in Failures \cup { Outcome("out", d) : d \in JsonDocuments(f) } :
                /\ cmds' = Append(cmds,
                      Run(<< "git", "obs", "pr", "list", "--state", "open", "--review-state",
                             "REQUEST_REVIEW", "--no-draft", "--export", "--reviewer",
                             Value(params.reviewer), "--target-branch", Value(params.branch),
                             Value(params.repository) >>, out))
                /\ result' = IF out.kind = "raise" THEN Raise("RuntimeError")
                             ELSE IF NoOutput(out) THEN Return(<< >>)
                             ELSE Return(ParseEntries(out.stdout))
    /\ Done

\* GiteaReviewProvider.get_request_diff(params)
Gitea_get_request_diff ==
    /\ Called("gitea", "get_request_diff")
    /\ LET params == Value(call).args[1] IN
         IF params.variant # "gitea"
         THEN cmds' = cmds /\ result' = Return("")
         ELSE \E out \in Failures \cup DiffOutputs :
                /\ cmds' = Append(cmds,
                      Run(<< "git", "obs", "pr", "show", "--timeline", "--patch",
                             << Value(params.repository), "#", params.request_id >> >>, out))
                /\ result' = IF out.kind = "raise" THEN Raise("RuntimeError")
                             ELSE IF NoOutput(out) THEN Return("")
                             ELSE Return(out.stdout)
    /\ Done

\* GiteaReviewProvider.approve_request(params): "if not result" tests the
\* returned object, not its stdout.
Gitea_approve_request ==
    /\ Called("gitea", "approve_request")
    /\ LET params == Value(call).args[1] IN
         IF params.variant # "gitea"
         THEN cmds' = cmds /\ result' = Return(<< >>)
         ELSE \E out \in Failures \cup CommentOutputs :
                /\ cmds' = Append(cmds,
                      Run(<< "git", "obs", "pr", "comment",
                             << Value(params.repository), "#", params.request_id >>, "-m",
                             << "@", Value(params.reviewer), ": approve" >> >>, out))
                /\ result' = IF out.kind = "raise" THEN Raise("RuntimeError")
                             ELSE IF out.kind = "none" THEN Return(<< >>)
                             ELSE IF out.kind = "empty" THEN Return(<< "" >>)
                             ELSE Return(<< out.stdout >>)
    /\ Done

ProviderNext ==
    \/ OBS_list_requests
    \/ OBS_get_request_diff
    \/ OBS_approve_request
    \/ Gitea_list_requests
    \/ Gitea_get_request_diff
    \/ Gitea_approve_request

ProviderSpec == ProviderInit /\ [][ProviderNext]_vars

----------------------------------------------------------------------------
\* Properties of the review providers, stated over the finished call.

\* The method of the backend was called with params and has finished.
Finished(backend, method) ==
    /\ pc = "provider_done"
    /\ Value(call).backend = backend
    /\ Value(call).method = method

Returned(v) == Value(result).kind = "return" /\ Value(result).value = v

\* The one positional argument of the call is a parameter object of the
\* other backend.
ForeignParams ==
    /\ Len(Value(call).args) = 1
    /\ Value(call).args[1].variant \notin {"str", Value(call).backend}

\* C15: list_requests, get_request_diff and approve_request of either
\* provider, given a parameter object of the other backend, run no command
\* and return the empty result ("" for the diff, the empty list otherwise).
C15_ForeignParamsRejected ==
    (pc = "provider_done" /\ ForeignParams) =>
        /\ cmds = << >>
        /\ IF Value(call).method = "get_request_diff" THEN Returned("") ELSE Returned(<< >>)

\* The groups the claim names for the bugowner flag.
ExpectedGroups(flag) ==
    IF flag = TRUE THEN << "sle-release-managers", "sle-staging-managers" >>
    ELSE << "sle-release-managers" >>

ObsListParsed ==
    /\ Finished("obs", "list_requests")
    /\ Len(cmds) = 1
    /\ cmds[1].out.kind = "out"

\* The element has a sub-review by sle-release-managers in state "new".
HasNewGroupReview(element) ==
    \E j \in DOMAIN element.reviews :
        /\ element.reviews[j].by_group = "sle-release-managers"
        /\ element.reviews[j].state = "new"

\* The sub-reviews of the element by sle-release-managers, in order.
GroupReviews(element) ==
    SelectSeq(element.reviews, LAMBDA r : r.by_group = "sle-release-managers")

\* The element at position i of the response is among the returned requests.
InResult(tree, i) ==
    /\ tree[i].id # None
    /\ \E k \in DOMAIN Value(result).value : Value(result).value[k].id = Value(tree[i].id)

\* C18: every Request returned by OBS list_requests comes from a request
\* element whose state is "review" and which has a sub-review by
\* sle-release-managers in state "new"; two elements that differ only in
\* sub-reviews by others are both returned or both left out; and the
\* returned requests are in response order.
C18_ObsListAcceptance ==
    ObsListParsed =>
        LET tree == cmds[1].out.stdout
            res == Value(result).value
        IN  /\ Value(result).kind = "return"
            /\ \A k \in DOMAIN res :
                 \E i \in DOMAIN tree :
                    /\ tree[i].id = Some(res[k].id)
                    /\ tree[i].state = Some("review")
                    /\ HasNewGroupReview(tree[i])
                    /\ \A h \in DOMAIN res : h < k =>
                         \E g \in DOMAIN tree : g < i /\ tree[g].id = Some(res[h].id)
            /\ \A i, j \in DOMAIN tree :
                 ( /\ tree[i].state = tree[j].state
                   /\ tree[i].package = tree[j].package
                   /\ tree[i].id # None /\ tree[j].id # None
                   /\ GroupReviews(tree[i]) = GroupReviews(tree[j]) )
                 => (InResult(tree, i) <=> InResult(tree, j))

\* two requests are returned, one of them with a sub-review by another group.
C18_Witness ==
    /\ ObsListParsed
    /\ Len(Value(result).value) = 2
    /\ \E i \in DOMAIN cmds[1].out.stdout : Len(cmds[1].out.stdout[i].reviews) = 2

\* The response holds one request element, in state "review".
OneRequestInReview ==
    /\ ObsListParsed
    /\ Len(cmds[1].out.stdout) = 1
    /\ cmds[1].out.stdout[1].state = Some("review")

\* C19 as stated: a response with one request in state "review" yields
\* exactly one Request if it has a sub-review by sle-release-managers in
\* state "new", and none otherwise.
C19_OneRequest_AsStated ==
    OneRequestInReview =>
        /\ Value(result).kind = "return"
        /\ Len(Value(result).value) =
             IF HasNewGroupReview(cmds[1].out.stdout[1]) THEN 1 ELSE 0

\* C19: a response with one request in state "review" that has an id and an
\* action target with a package yields exactly one Request, of that id and
\* package, if its first sub-review by sle-release-managers is in state
\* "new", and none if that sub-review is in another state or missing.
C19_OneRequest ==
    (OneRequestInReview /\ cmds[1].out.stdout[1].id # None
       /\ cmds[1].out.stdout[1].package # None) =>
        LET element == cmds[1].out.stdout[1]
            first_is_new ==
                \E j \in DOMAIN element.reviews :
                    /\ element.reviews[j].by_group = "sle-release-managers"
                    /\ element.reviews[j].state = "new"
                    /\ \A h \in 1..(j - 1) :
                         element.reviews[h].by_group # "sle-release-managers"
        IN  /\ Value(result).kind = "return"
            /\ IF first_is_new
               THEN Value(result).value =
                      << [id |-> Value(element.id), name |-> Value(element.package),
                          provider_type |-> "obs"] >>
               ELSE Value(result).value = << >>

\* one well-formed request in review with the group's sub-review new gave
\* one Request.
C19_Witness ==
    /\ OneRequestInReview
    /\ cmds[1].out.stdout[1].reviews = << ReviewNew >>
    /\ Len(Value(result).value) = 1

\* C20: Gitea approve_request runs exactly one command, the comment on
\* <repository>#<id> with the message "@<reviewer>: approve", and returns
\* the empty list when that command gives no output.
C20_GiteaApproveOneComment ==
    (Finished("gitea", "approve_request") /\ Value(call).args[1].variant = "gitea") =>
        LET params == Value(call).args[1] IN
        /\ Len(cmds) = 1
        /\ Len(cmds[1].argv) = 7
        /\ cmds[1].argv[4] = "comment"
        /\ cmds[1].argv[5] = << Value(params.repository), "#", params.request_id >>
        /\ cmds[1].argv[7] = << "@", Value(params.reviewer), ": approve" >>
        /\ cmds[1].out.kind \in {"none", "empty"} => Returned(<< >>)

\* list_requests of the forge parsed the output of its command.
GiteaListParsed ==
    /\ Finished("gitea", "list_requests")
    /\ Len(cmds) = 1
    /\ cmds[1].out.kind = "out"

\* The positions of the entries of l that have both number and title.
WellFormed(l) == { i \in DOMAIN l : l[i].number # None /\ l[i].title # None }

\* C21: Gitea list_requests does not raise on the output of its command:
\* output that is not JSON gives the empty list, and a "requests" list gives
\* one Request per entry that has number and title, in response order, its
\* id the string form of number; entries lacking either are left out.
C21_GiteaListTolerant ==
    GiteaListParsed =>
        LET doc == cmds[1].out.stdout
            res == Value(result).value
            good == WellFormed(doc.requests)
        IN  /\ Value(result).kind = "return"
            /\ doc.kind = "invalid" => res = << >>
            /\ doc.kind = "requests" =>
                 /\ Len(res) = Cardinality(good)
                 /\ \A i \in good :
                      LET k == Cardinality({ h \in good : h <= i })
                      IN  /\ res[k].id = StrOf(Value(doc.requests[i].number))
                          /\ res[k].name = Value(doc.requests[i].title)
                          /\ res[k].provider_type = "gitea"

\* a response with a malformed entry before a well-formed one gave one Request.
C21_Witness ==
    /\ GiteaListParsed
    /\ cmds[1].out.stdout.kind = "requests"
    /\ Len(cmds[1].out.stdout.requests) = 2
    /\ WellFormed(cmds[1].out.stdout.requests) = {2}
    /\ Len(Value(result).value) = 1

\* C22: OBS list_requests on its own parameter object runs exactly one
\* command, "osc -A <url> api <query>", whose query is the set_bugowner query
\* on the project when is_bugowner_request is set (with or without a staging
\* letter), else the query on review/@by_project <project>:Staging:<letter>
\* when a staging letter is given, else the query on target/@project.
C22_ObsListOneQuery ==
    (Finished("obs", "list_requests") /\ Value(call).args[1].variant = "obs") =>
        LET params == Value(call).args[1]
            query == cmds[1].argv[5]
        IN  /\ Len(cmds) = 1
            /\ Len(cmds[1].argv) = 5
            /\ cmds[1].argv[1] = "osc" /\ cmds[1].argv[4] = "api"
            /\ IF params.is_bugowner_request = TRUE
               THEN /\ Len(query) = 3
                    /\ query[1] = "/search/request?match=state/@name='review' and action/@type='set_bugowner' and action/target/@project='"
                    /\ query[2] = Value(params.project)
               ELSE IF params.staging # None
               THEN /\ Len(query) = 5
                    /\ query[1] = "/search/request?match=state/@name='review' and review/@state='new' and review/@by_project='"
                    /\ query[2] = Value(params.project)
                    /\ query[3] = ":Staging:"
                    /\ query[4] = Value(params.staging)
               ELSE /\ Len(query) = 3
                    /\ query[1] = "/search/request?match=state/@name='review' and review/@state='new' and target/@project='"
                    /\ query[2] = Value(params.project)

\* list_requests finished on params with both the bugowner flag and a
\* staging letter.
C22_Witness ==
    /\ Finished("obs", "list_requests")
    /\ Value(call).args[1].variant = "obs"
    /\ Value(call).args[1].is_bugowner_request = TRUE
    /\ Value(call).args[1].staging # None
    /\ Len(cmds) = 1

\* approve_request ran with the bugowner flag and the second accept command
\* raised.
SecondAcceptFailed ==
    /\ Finished("obs", "approve_request")
    /\ Len(Value(call).args) = 2
    /\ Value(call).args[2] = TRUE
    /\ Len(cmds) >= 2
    /\ cmds[2].out.kind = "raise"

CallCount(op, i) == Count(op, i) + (IF pc = op /\ index = i THEN 1 ELSE 0)

\* The request at position i was answered yes at the prompt op.
SaidYes(op, i) == \E k \in DOMAIN trace : At(k, op, i) /\ trace[k].ret = Some("y")

\* C26: in every state of a review run get_request_diff and approve_request
\* have each been called at most once per listed request and only with the
\* id of a request of the filtered list, and the requests approve_request
\* was called for are exactly those answered yes at the review prompt and
\* yes at the approval prompt.
C26_ApproveOnlyAfterTwoYes ==
    /\ \A k \in DOMAIN trace :
         trace[k].op \in {"get_request_diff", "approve_request"} =>
            /\ trace[k].idx \in DOMAIN requests
            /\ trace[k].arg.request_id = requests[trace[k].idx].id
    /\ pc \in {"get_request_diff", "approve_request"} => index \in DOMAIN requests
    /\ \A i \in DOMAIN requests :
         /\ CallCount("get_request_diff", i) <= 1
         /\ CallCount("approve_request", i) <= 1
         /\ CallCount("approve_request", i) = 1 <=>
              (SaidYes("prompt_review", i) /\ SaidYes("prompt_approve", i))

\* both of two requests were approved.
C26_Witness ==
    /\ Len(requests) = 2
    /\ Count("approve_request", 1) = 1
    /\ Count("approve_request", 2) = 1

\* The diff of the request at position i was fetched and handed to the
\* pager before trace position k.
DiffShownBefore(k, i) ==
    \E d \in DOMAIN trace :
        /\ d + 1 < k
        /\ At(d, "get_request_diff", i)
        /\ trace[d].ret # None
        /\ At(d + 1, "pager_command", i)
        /\ trace[d + 1].arg[2] = Value(trace[d].ret)

\* C27: the approval prompt and the approve_request call of a request come
\* only after get_request_diff returned for that request and its text went
\* to the pager; and the one list_requests call of the run comes before
\* every prompt and every diff, pager or approve call.
C27_DiffBeforeApproval ==
    /\ \A k \in DOMAIN trace :
         trace[k].op \in {"prompt_approve", "approve_request"} =>
            DiffShownBefore(k, trace[k].idx)
    /\ pc \in {"prompt_approve", "approve_request"} => DiffShownBefore(Len(trace) + 1, index)
    /\ Cardinality({ l \in DOMAIN trace : trace[l].op = "list_requests" }) <= 1
    /\ \A k \in DOMAIN trace :
         trace[k].op \in PerItemOps \cup {"prompt_start"} =>
            \E l \in 1..(k - 1) : trace[l].op = "list_requests" /\ trace[l].ret # None
    /\ pc \in {"prompt_start", "prompt_review", "get_request_diff", "prompt_approve",
               "approve_request"} =>
         \E l \in DOMAIN trace : trace[l].op = "list_requests" /\ trace[l].ret # None

\* approve_request was called for the second request.
C27_Witness == \E k \in DOMAIN trace : At(k, "approve_request", 2)

\* All three forge arguments are given.
ForgeComplete == Truthy(args.repository) /\ Truthy(args.branch) /\ Truthy(args.reviewer)

\* One or two of the three forge arguments are given.
ForgePartial ==
    /\ ~ForgeComplete
    /\ Truthy(args.repository) \/ Truthy(args.branch) \/ Truthy(args.reviewer)

Calls(ops) ==
    Cardinality({ k \in DOMAIN trace : trace[k].op \in ops })
      + (IF pc \in ops THEN 1 ELSE 0)

\* The outcomes of a review run.
RunOutcomes ==
    { o \in {"validation error", "done empty", "cancelled", "all reviews done",
             "backend failure"} :
        CASE o = "validation error" ->
               /\ trace # << >>
               /\ trace[1].op = "console_print"
               /\ trace[1].arg[1] = "[bold red]Error: "
          [] o = "done empty" -> Listed /\ requests = << >> /\ exc = None
          [] o = "cancelled" -> exc = Some("RelxUserCancelError")
          [] o = "all reviews done" -> DoneReported
          [] OTHER -> exc = Some("RuntimeError") }

\* The counts of C28 and, once the process exited, its single outcome.
BoundedRun ==
    /\ Calls({"prompt_start", "prompt_review", "prompt_approve"}) <= 1 + 2 * Len(requests)
    /\ Calls({"get_request_diff"}) <= Len(requests)
    /\ Calls({"approve_request"}) <= Len(requests)
    /\ pc = "exited" => Cardinality(RunOutcomes) = 1

\* C28: when every prompt is answered and every backend call returns or
\* raises, the run ends (the process exits) with exactly one of the outcomes
\* validation error, done-empty, cancelled, all reviews done and backend
\* failure, and at no point has it made more than 1 + 2N prompts, N
\* get_request_diff calls or N approve_request calls for N listed requests.
C28_Terminates == []BoundedRun /\ <>[](pc = "exited")

\* a run over two requests exited after all five prompts and both calls of
\* each backend operation.
C28_Witness ==
    /\ pc = "exited"
    /\ Len(requests) = 2
    /\ Calls({"prompt_start", "prompt_review", "prompt_approve"}) = 5
    /\ Calls({"get_request_diff"}) = 2
    /\ Calls({"approve_request"}) = 2

----------------------------------------------------------------------------
\* OBSPackageProvider.is_shipped (providers/obs_package.py): one call on a
\* product manifest streamed line by line.  The lines read so far are counted
\* in index, the command run is recorded in cmds, the value returned in result.

MaxLines == 2

\* Text that is matched: tuples of one-character strings.
Foo == << "f", "o", "o" >>
Bar == << "b", "a", "r" >>
FooBar == << "f", "o", "o", "-", "b", "a", "r" >>

PackageNames == { Foo, Bar, FooBar }

Productcomposer == "fake-product"

ManifestLines ==
    { FooBar, Foo, Bar,
      << "f", "o", "o", "b", "a", "r" >>,
      << "a", " ", "f", "o", "o" >>,
      << >> }

\* The characters \w matches.
WordChars ==
    { "a", "b", "c", "d", "e", "f", "g", "h", "i", "j", "k", "l", "m", "n", "o",
      "p", "q", "r", "s", "t", "u", "v", "w", "x", "y", "z", "_",
      "0", "1", "2", "3", "4", "5", "6", "7", "8", "9" }

\* Elements of a regular expression: the assertion \b and a literal character.
WordBoundary == [t |-> "b", c |-> ""]
Literal(c) == [t |-> "lit", c |-> c]

\* re.escape(s): every character of s matches itself.
re_escape(s) == [i \in DOMAIN s |-> Literal(s[i])]

\* r"\b" + re.escape(package) + r"\b"
pattern(package) == << WordBoundary >> \o re_escape(package) \o << WordBoundary >>

\* \b between the first pos characters of line and the rest: a word character
\* on exactly one side.
AtWordBoundary(line, pos) ==
    (pos >= 1 /\ line[pos] \in WordChars)
      # (pos < Len(line) /\ line[pos + 1] \in WordChars)

\* the elements k.. of the expression match line after its first pos characters
RECURSIVE re_match(_, _, _, _)
re_match(re, k, line, pos) ==
    IF k > Len(re) THEN TRUE
    ELSE IF re[k].t = "b"
    THEN AtWordBoundary(line, pos) /\ re_match(re, k + 1, line, pos)
    ELSE /\ pos < Len(line)
         /\ line[pos + 1] = re[k].c
         /\ re_match(re, k + 1, line, pos + 1)

\* re.search(pattern, line) is not None
re_search(re, line) == \E pos \in 0..Len(line) : re_match(re, 1, line, pos)

IsShippedInit ==
    /\ call \in { Some([backend |-> "obs_package", method |-> "is_shipped",
                        args |-> << package, Productcomposer >>]) :
                  package \in PackageNames }
    /\ cmds = << >>
    /\ result = None
    /\ pc = "is_shipped"
    /\ args = NoArgs
    /\ provider = None
    /\ requests = << >>
    /\ index = 0
    /\ diff_content = ""
    /\ exc = None
    /\ exit_status = None
    /\ trace = << >>

\* The manifest the stream runner yields.
Manifest == cmds[1].out.stdout

\* command = [...]; self._stream_runner(command)
IsShipped_stream ==
    /\ pc = "is_shipped"
    /\ \E n \in 0..MaxLines : \E lines \in [1..n -> ManifestLines] :
         cmds' = << Run(<< "/bin/bash", "-c",
                           << "osc -A ", ApiUrl, " cat ", Value(call).args[2] >> >>,
                        Outcome("stream", lines)) >>
    /\ pc' = "for_line"
    /\ UNCHANGED <<vars_of_run, call, result>>

\* for line in ...: if re.search(pattern, line): return True
IsShipped_line ==
    /\ pc = "for_line"
    /\ index < Len(Manifest)
    /\ index' = index + 1
    /\ IF re_search(pattern(Value(call).args[1]), Manifest[index'])
       THEN result' = Return(TRUE) /\ pc' = "is_shipped_done"
       ELSE UNCHANGED <<result, pc>>
    /\ UNCHANGED <<args, provider, requests, diff_content, exc, exit_status, trace,
                   call, cmds>>

\* return False
IsShipped_exhausted ==
    /\ pc = "for_line"
    /\ index = Len(Manifest)
    /\ result' = Return(FALSE)
    /\ pc' = "is_shipped_done"
    /\ UNCHANGED <<vars_of_run, call, cmds>>

IsShippedNext == IsShipped_stream \/ IsShipped_line \/ IsShipped_exhausted

IsShippedSpec == IsShippedInit /\ [][IsShippedNext]_vars

\* C23: is_shipped returns true at the first line with a whole-word match and
\* reads no further, false only when every line of the manifest was read
\* without a match; and for the manifest ["foo-bar", "foo"] and package "foo"
\* the match is on the second line, not on "foo-bar".
C23_IsShippedWholeWord ==
    pc = "is_shipped_done" =>
      LET re == pattern(Value(call).args[1]) IN
        /\ result = Return(TRUE) =>
             /\ index >= 1
             /\ re_search(re, Manifest[index])
             /\ \A j \in 1..(index - 1) : ~re_search(re, Manifest[j])
        /\ result = Return(FALSE) =>
             /\ index = Len(Manifest)
             /\ \A j \in 1..index : ~re_search(re, Manifest[j])
        /\ (Value(call).args[1] = Foo /\ Manifest = << FooBar, Foo >>) =>
             result = Return(TRUE) /\ index = 2

----------------------------------------------------------------------------
\* The packages subcommand (packages.py, main): one pass over the binary names
\* of the command line.  call holds the arguments, index the position of the
\* binary being processed, result the source package found for it, trace the
\* calls made, exc an exception that left main.

MaxBinaries == 2

BinaryNames == { "vim", "nano" }

SourcePackages == { "vim-source", "nano-source" }

Product == "fake_product"

\* (bugowners, is_group) as get_bugowner returns them
BugownerResults ==
    { << << >>, FALSE >>, << << "user1" >>, FALSE >>,
      << << "user1", "user2" >>, FALSE >>, << << "group1" >>, TRUE >> }

\* get_bugowner_info: the dictionary of a group or of the first user found
bugowner_info(user, is_group) ==
    [key |-> IF is_group THEN "Group" ELSE "User", value |-> user]

PackagesInit ==
    /\ \E n \in 1..MaxBinaries :
         call \in { Some([binary_name |-> b]) : b \in [1..n -> BinaryNames] }
    /\ cmds = << >>
    /\ result = None
    /\ pc = "for_binary"
    /\ args = NoArgs
    /\ provider = None
    /\ requests = << >>
    /\ index = 0
    /\ diff_content = ""
    /\ exc = None
    /\ exit_status = None
    /\ trace = << >>

binary == Value(call).binary_name[index]

\* except RuntimeError as e: log.error(e)
except_RuntimeError == Call("log_error", index, "RuntimeError", None)

packages_frame == <<args, provider, requests, diff_content, exit_status, call, cmds>>

\* for binary in args.binary_name: table = Table(title=binary, ...)
Packages_for_binary ==
    /\ pc = "for_binary"
    /\ IF index < Len(Value(call).binary_name)
       THEN /\ index' = index + 1
            /\ trace' = Append(trace, Call("Table", index',
                                 Value(call).binary_name[index'], None))
            /\ pc' = "get_source_package"
       ELSE /\ pc' = "packages_done"
            /\ UNCHANGED <<index, trace>>
    /\ UNCHANGED <<packages_frame, result, exc>>

\* get_source_package raises RuntimeError and the next call is made all the same
Packages_get_source_package_without_except ==
    /\ pc = "get_source_package"
    /\ \/ \E source_package \in SourcePackages :
            /\ result' = Return(source_package)
            /\ trace' = trace \o
                 << Call("get_source_package", index, binary, Return(source_package)),
                    Call("add_row", index, << "Source package", source_package >>, None) >>
       \/ /\ result' = Return("")
          /\ trace' = Append(trace,
                 Call("get_source_package", index, binary, Raise("RuntimeError")))
    /\ pc' = "is_shipped"
    /\ UNCHANGED <<packages_frame, index, exc>>

\* source_package = get_source_package(...); table.add_row("Source package", ...)
Packages_get_source_package ==
    /\ pc = "get_source_package"
    /\ \/ \E source_package \in SourcePackages :
            /\ result' = Return(source_package)
            /\ trace' = trace \o
                 << Call("get_source_package", index, binary, Return(source_package)),
                    Call("add_row", index, << "Source package", source_package >>, None) >>
            /\ pc' = "is_shipped"
            /\ UNCHANGED exc
       \/ /\ trace' = trace \o
                 << Call("get_source_package", index, binary, Raise("RuntimeError")),
                    except_RuntimeError >>
          /\ pc' = "for_binary"
          /\ UNCHANGED <<result, exc>>
       \/ /\ trace' = Append(trace,
                 Call("get_source_package", index, binary, Raise("CalledProcessError")))
          /\ exc' = Some("CalledProcessError")
          /\ pc' = "packages_raised"
          /\ UNCHANGED result
    /\ UNCHANGED <<packages_frame, index>>

\* if is_shipped(...): add_row("Shipped", "YES - ...") else add_row("Shipped", "*** NO ***")
Packages_is_shipped ==
    /\ pc = "is_shipped"
    /\ \E shipped \in BOOLEAN :
         trace' = trace \o
           << Call("is_shipped", index, binary, Return(shipped)),
              Call("add_row", index,
                   << "Shipped", IF shipped THEN << "YES - ", Product >>
                                 ELSE << "*** NO ***" >> >>, None) >>
    /\ pc' = "get_bugowner"
    /\ UNCHANGED <<packages_frame, index, result, exc>>

\* The calls of the loop over bugowners from the j-th on, up to the first
\* get_bugowner_info that raises, and console.print(table) when none does.
RECURSIVE bugowner_rows(_, _, _, _)
bugowner_rows(bugowners, is_group, outs, j) ==
    IF j > Len(bugowners)
    THEN << Call("console_print", index, "table", None) >>
    ELSE IF outs[j] = "raise"
    THEN << Call("get_bugowner_info", index, << bugowners[j], is_group >>,
                 Raise("RuntimeError")),
            except_RuntimeError >>
    ELSE << Call("get_bugowner_info", index, << bugowners[j], is_group >>,
                 Return(bugowner_info(bugowners[j], is_group))),
            Call("add_row", index,
                 << bugowner_info(bugowners[j], is_group).key,
                    bugowner_info(bugowners[j], is_group).value >>, None) >>
         \o bugowner_rows(bugowners, is_group, outs, j + 1)

\* bugowners, is_group = get_bugowner(...); for bugowner in bugowners: ...;
\* console.print(table)
Packages_get_bugowner ==
    /\ pc = "get_bugowner"
    /\ \/ \E r \in BugownerResults : \E outs \in [1..Len(r[1]) -> {"return", "raise"}] :
            trace' = Append(trace, Call("get_bugowner", index, Value(result).value, Return(r)))
                       \o bugowner_rows(r[1], r[2], outs, 1)
       \/ trace' = trace \o
            << Call("get_bugowner", index, Value(result).value, Raise("RuntimeError")),
               except_RuntimeError >>
    /\ pc' = "for_binary"
    /\ UNCHANGED <<packages_frame, index, result, exc>>

PackagesNext ==
    \/ Packages_for_binary
    \/ Packages_get_source_package
    \/ Packages_is_shipped
    \/ Packages_get_bugowner

PackagesSpec == PackagesInit /\ [][PackagesNext]_vars

\* the k-th recorded call raised RuntimeError
RaisedRuntimeError(k) == trace[k].ret = Raise("RuntimeError")

\* C25: when a step for one binary raises RuntimeError, the error is logged
\* and nothing more is done for that binary (no shipped check, no bugowner
\* lookup, no table printed), main does not raise, and the binaries are
\* processed in argument order: a finished run has looked up every binary of
\* the command line once, in order.
C25_PerItemErrors ==
    /\ \A k \in DOMAIN trace :
         /\ RaisedRuntimeError(k) =>
              /\ k < Len(trace)
              /\ trace[k + 1] = Call("log_error", trace[k].idx, "RuntimeError", None)
              /\ \A l \in (k + 2)..Len(trace) : trace[l].idx > trace[k].idx
         /\ k > 1 => trace[k - 1].idx <= trace[k].idx
    /\ pc = "packages_raised" =>
         /\ exc = Some("CalledProcessError")
         /\ ~RaisedRuntimeError(Len(trace))
    /\ pc = "packages_done" =>
         /\ exc = None
         /\ \A i \in DOMAIN Value(call).binary_name :
              Cardinality({ k \in DOMAIN trace :
                              /\ trace[k].op = "get_source_package"
                              /\ trace[k].idx = i
                              /\ trace[k].arg = Value(call).binary_name[i] }) = 1

\* a finished run over two binaries in which the lookup of the first raised
\* RuntimeError and the table of the second was printed.
C25_Witness ==
    /\ pc = "packages_done"
    /\ Len(Value(call).binary_name) = 2
    /\ \E k \in DOMAIN trace :
         /\ trace[k].op = "get_source_package"
         /\ trace[k].idx = 1
         /\ RaisedRuntimeError(k)
    /\ trace[Len(trace)] = Call("console_print", 2, "table", None)

----------------------------------------------------------------------------
\* The artifacts subcommand (artifacts.py, main): the packages of the project
\* are listed once and list_artifacs is called for each repo_info entry of the
\* configuration in turn.  call holds the configuration, requests the package
\* names, index the position of the repo_info entry, trace the calls made and
\* the lines printed, exc an exception that left main.

MaxRepos == 2

\* config["artifacts"]["repo_info"] entries: a repository name and a pattern
\* over package names
RepoInfos ==
    { [name |-> "images", pattern |-> << Literal("a") >>],
      [name |-> "product", pattern |-> << Literal("b") >>] }

\* f"{repo_info['name']}/"
RepoPrefix(name) == IF name = "images" THEN "images/" ELSE "product/"

InvalidStart == { "_", "updateinfo" }
InvalidExtensions == { ".sha256", ".json" }

\* list_packages(...).split()
PackageLists ==
    { << >>, << << "a", "b" >> >>, << << "a", "b" >>, << "b" >> >> }

\* A line of a listing, by how it starts and how it ends.
Line(starts, ends) == [starts |-> starts, ends |-> ends]

\* What the stream of one listing command yields, and whether it then fails.
StreamOutcomes ==
    { Outcome("stream", << >>),
      Outcome("stream", << Line("_", "buildenv"), Line("x", ".iso") >>),
      Outcome("stream", << Line("images/", "x86_64"), Line("x", ".sha256") >>),
      Outcome("raise", << >>),
      Outcome("raise", << Line("x", ".iso") >>) }

\* the line passes the filters of list_artifacs
IsArtifact(line, repo_info) ==
    /\ line.starts \notin InvalidStart
    /\ line.starts # RepoPrefix(repo_info.name)
    /\ line.ends \notin InvalidExtensions

ArtifactsInit ==
    /\ \E n \in 1..MaxRepos :
         call \in { Some([repo_info |-> r]) : r \in [1..n -> RepoInfos] }
    /\ cmds = << >>
    /\ result = None
    /\ pc = "list_packages"
    /\ args = NoArgs
    /\ provider = None
    /\ requests = << >>
    /\ index = 0
    /\ diff_content = ""
    /\ exc = None
    /\ exit_status = None
    /\ trace = << >>

artifacts_frame == <<args, provider, diff_content, exit_status, call, cmds, result>>

\* packages = list_packages(**parameters).split()
Artifacts_list_packages ==
    /\ pc = "list_packages"
    /\ \/ \E packages \in PackageLists :
            /\ requests' = packages
            /\ trace' = Append(trace, Call("list_packages", 0, << >>, Return(packages)))
            /\ pc' = "for_repo_info"
            /\ UNCHANGED exc
       \/ /\ trace' = Append(trace,
                        Call("list_packages", 0, << >>, Raise("CalledProcessError")))
          /\ exc' = Some("CalledProcessError")
          /\ pc' = "artifacts_raised"
          /\ UNCHANGED requests
    /\ UNCHANGED <<artifacts_frame, index>>

\* The calls list_artifacs makes for the packages from the j-th on, for the
\* entry at position i: for a package the pattern matches the listing command
\* and a print per line that passes the filters, then progress.update; it ends
\* at the first command that fails.
RECURSIVE package_rows(_, _, _, _)
package_rows(i, repo_info, outs, j) ==
    IF j > Len(requests) THEN << >>
    ELSE IF ~re_search(repo_info.pattern, requests[j])
    THEN << Call("progress_update", i, j, None) >> \o package_rows(i, repo_info, outs, j + 1)
    ELSE LET lines == outs[j].stdout
             printed == SelectSeq(lines, LAMBDA line : IsArtifact(line, repo_info))
             prints == [l \in DOMAIN printed |-> Call("print", i, printed[l], None)]
         IN  IF outs[j].kind = "raise"
             THEN << Call("stream", i, << requests[j], repo_info.name >>,
                          Raise("CalledProcessError")) >> \o prints
             ELSE << Call("stream", i, << requests[j], repo_info.name >>, None) >>
                    \o prints
                    \o << Call("progress_update", i, j, None) >>
                    \o package_rows(i, repo_info, outs, j + 1)

\* the listing of the entry at position i ended in an exception
ListingFailed(rows) == rows # << >> /\ rows[Len(rows)].op \in {"stream", "print"}
                         /\ \E k \in DOMAIN rows : rows[k].ret = Raise("CalledProcessError")

\* for repo_info in config["artifacts"]["repo_info"]: list_artifacs(**parameters)
Artifacts_list_artifacs ==
    /\ pc = "for_repo_info"
    /\ index < Len(Value(call).repo_info)
    /\ index' = index + 1
    /\ \E outs \in [1..Len(requests) -> StreamOutcomes] :
         LET rows == package_rows(index', Value(call).repo_info[index'], outs, 1) IN
           /\ trace' = Append(trace, Call("list_artifacs", index',
                                          Value(call).repo_info[index'], None)) \o rows
           /\ IF ListingFailed(rows)
              THEN exc' = Some("CalledProcessError") /\ pc' = "artifacts_raised"
              ELSE UNCHANGED <<exc, pc>>
    /\ UNCHANGED <<artifacts_frame, requests>>

\* the loop over repo_info is over and main returns
Artifacts_return ==
    /\ pc = "for_repo_info"
    /\ index = Len(Value(call).repo_info)
    /\ pc' = "artifacts_done"
    /\ UNCHANGED <<vars_of_run, provider_vars>>

ArtifactsNext ==
    \/ Artifacts_list_packages
    \/ Artifacts_list_artifacs
    \/ Artifacts_return

ArtifactsSpec == ArtifactsInit /\ [][ArtifactsNext]_vars

\* the packages were listed and main is over
ArtifactsOver ==
    /\ pc \in {"artifacts_done", "artifacts_raised"}
    /\ Value(trace[1].ret).kind = "return"

\* C24: once the artifact listing is over, the listing of every repo_info
\* entry of the configuration was run, whether or not the listing of another
\* entry failed, and no line is printed while an entry's listing is still to
\* be run.
C24_FailuresAreIsolated ==
    /\ ArtifactsOver =>
         \A i \in DOMAIN Value(call).repo_info :
           \E k \in DOMAIN trace : trace[k].op = "list_artifacs" /\ trace[k].idx = i
    /\ \A k \in DOMAIN trace :
         trace[k].op = "print" =>
           \A l \in (k + 1)..Len(trace) : trace[l].op # "list_artifacs"

====
